---- MODULE Spec2Model ----
(***************************************************************************)
(* A model of three parts of the vikit SDK:                                *)
(*   - VideoBuildingHandlerReencoder (video_reencoding_handler.py),        *)
(*   - GoogleCloudStorageGateway     (gcs_cloud_storage_gateway.py),       *)
(*   - telemetry                     (telemetry.py).                       *)
(* Each part has its own specification (SpecHandler, SpecGateway,          *)
(* SpecTelemetry); the parts share no state in the code.                   *)
(***************************************************************************)
EXTENDS Integers, Sequences, FiniteSets, TLC

VARIABLES
    \* ---- reencoding handler ----
    video,        \* the Video passed to the handler: _media_url, _needs_reencoding, metadata
    hpc,          \* position of the running handler call
    hmode,        \* entry point invoked: "async" (_execute_logic_async) or "sync" (_execute_logic)
    hkwargs,      \* the **kwargs the handler was invoked with
    pre,          \* the video as it was when the handler was invoked
    trace,        \* what the current execution has done, in order
    transcoder,   \* calls to reencode_video in the current execution, and the last result
    outcome,      \* how the current execution ended
    runs,         \* handler executions started so far
    \* ---- cloud storage gateway ----
    env,          \* the world outside the gateway: files, bucket, principals
    gw,           \* the gateway object's fields
    auth,         \* the last authenticate_with_oauth call: what it saw and did
    chk,          \* the last check_bucket_access call
    up,           \* the upload_image call: position, steps done, outcome
    gcalls,       \* gateway calls made so far
    \* ---- telemetry ----
    telemetry_initialized,  \* telemetry.telemetry_initialized
    lock,         \* telemetry._lock: 0 when free, else the thread holding it
    tpc,          \* each thread's position
    tcalls,       \* get_tracer calls each thread has started
    tracing,      \* the global tracer provider: set_tracer_provider calls, processors added
    failures,     \* setup steps that raised so far
    setups        \* per thread: times the thread entered the setup branch

hvars == <<video, hpc, hmode, hkwargs, pre, trace, transcoder, outcome, runs>>
gvars == <<env, gw, auth, chk, up, gcalls>>
tvars == <<telemetry_initialized, lock, tpc, tcalls, tracing, failures, setups>>
vars == <<hvars, gvars, tvars>>

\* ------------------------------------------------------------------
\* Bounds
\* ------------------------------------------------------------------
MaxRuns == 2
MaxGatewayCalls == 3
NThreads == 2
MaxCalls == 2
MaxFailures == 1

\* ==================================================================
\* Reencoding handler
\* ==================================================================
Refs == {"in.mp4", "out_a.mp4", "out_b.mp4"}
Titles == {"t1", "t2"}
Contexts == SUBSET {"build_settings", "target_file_name"}
NoKwargs == {}

Event(op, kw) == [op |-> op, kwargs |-> kw]

NoTranscoder == [calls |-> 0, ok |-> FALSE, ret |-> "none"]

\* is_supporting_async_mode
is_supporting_async_mode == TRUE

\* The base class's _execute_logic_async(video, **kwargs): bookkeeping (log, trace span)
\* on the artifact it is given; it does not change the artifact.
BaseExecuteLogicAsync(kw) ==
    /\ trace' = Append(trace, Event("base", kw))
    /\ UNCHANGED video

\* A Video as the caller creates it: not reencoded yet.
HInit ==
    /\ video \in [ _media_url : {"in.mp4"},
                   _needs_reencoding : BOOLEAN,
                   metadata : [is_reencoded : {FALSE}, title : Titles] ]
    /\ hpc = "idle"
    /\ hmode = "none"
    /\ hkwargs = NoKwargs
    /\ pre = video
    /\ trace = << >>
    /\ transcoder = NoTranscoder
    /\ outcome = "none"
    /\ runs = 0

\* The caller invokes one of the two entry points on the video.
Invoke(mode, kw) ==
    /\ hpc \in {"idle", "done"}
    /\ runs < MaxRuns
    /\ runs' = runs + 1
    /\ hmode' = mode
    /\ hkwargs' = kw
    /\ pre' = video
    /\ trace' = << >>
    /\ transcoder' = NoTranscoder
    /\ outcome' = "none"
    /\ hpc' = IF mode = "async" THEN "base1" ELSE "sync"
    /\ UNCHANGED video
    /\ UNCHANGED <<gvars, tvars>>

\* line 16: await super()._execute_logic_async(video)
AsyncBaseFirst ==
    /\ hpc = "base1"
    /\ BaseExecuteLogicAsync(NoKwargs)
    /\ hpc' = "base2"
    /\ UNCHANGED <<hmode, hkwargs, pre, transcoder, outcome, runs>>
    /\ UNCHANGED <<gvars, tvars>>

\* line 29: await super()._execute_logic_async(video, **kwargs)
AsyncBaseSecond ==
    /\ hpc = "base2"
    /\ BaseExecuteLogicAsync(hkwargs)
    /\ hpc' = "test"
    /\ UNCHANGED <<hmode, hkwargs, pre, transcoder, outcome, runs>>
    /\ UNCHANGED <<gvars, tvars>>

\* line 32: if video._needs_reencoding
MutShouldReencode(v) == TRUE
ShouldReencode(v) == v._needs_reencoding

\* lines 32, 39-40: the test, and the pass-through return (video, kwargs)
AsyncTest ==
    /\ hpc = "test"
    /\ trace' = Append(trace, Event("test", NoKwargs))
    /\ IF ShouldReencode(video)
         THEN /\ hpc' = "reencode"
              /\ outcome' = outcome
         ELSE /\ hpc' = "done"
              /\ outcome' = "returned"
    /\ UNCHANGED <<video, hmode, hkwargs, pre, transcoder, runs>>
    /\ UNCHANGED <<gvars, tvars>>

\* lines 33-38 with the flag set before the call
MutAsyncReencode ==
    /\ hpc = "reencode"
    /\ trace' = Append(trace, Event("reencode", NoKwargs))
    /\ \E ok \in BOOLEAN, r \in Refs \ {"in.mp4"} :
         /\ transcoder' = [calls |-> transcoder.calls + 1, ok |-> ok,
                           ret |-> IF ok THEN r ELSE "none"]
         /\ IF ok
              THEN /\ video' = [video EXCEPT !._media_url = r]
                   /\ hpc' = "mark"
                   /\ outcome' = outcome
              ELSE /\ video' = [video EXCEPT !.metadata.is_reencoded = TRUE]
                   /\ hpc' = "done"
                   /\ outcome' = "raised"
    /\ UNCHANGED <<hmode, hkwargs, pre, runs>>
    /\ UNCHANGED <<gvars, tvars>>

\* lines 33-38: video._media_url = reencode_video(video_url=..., target_video_name=...)
\* The call either returns a new reference, which is then assigned, or raises; the
\* handler has no try/except, so the exception leaves the coroutine.
AsyncReencode ==
    /\ hpc = "reencode"
    /\ trace' = Append(trace, Event("reencode", NoKwargs))
    /\ \E ok \in BOOLEAN, r \in Refs \ {"in.mp4"} :
         /\ transcoder' = [calls |-> transcoder.calls + 1, ok |-> ok,
                           ret |-> IF ok THEN r ELSE "none"]
         /\ IF ok
              THEN /\ video' = [video EXCEPT !._media_url = r]
                   /\ hpc' = "mark"
                   /\ outcome' = outcome
              ELSE /\ video' = video
                   /\ hpc' = "done"
                   /\ outcome' = "raised"
    /\ UNCHANGED <<hmode, hkwargs, pre, runs>>
    /\ UNCHANGED <<gvars, tvars>>

\* lines 42-45: video.metadata.is_reencoded = True; return video, kwargs
AsyncMark ==
    /\ hpc = "mark"
    /\ video' = [video EXCEPT !.metadata.is_reencoded = TRUE]
    /\ trace' = Append(trace, Event("mark", NoKwargs))
    /\ hpc' = "done"
    /\ outcome' = "returned"
    /\ UNCHANGED <<hmode, hkwargs, pre, transcoder, runs>>
    /\ UNCHANGED <<gvars, tvars>>

\* lines 47-51: def _execute_logic(self, video, **kwargs): pass
_execute_logic ==
    /\ hpc = "sync"
    /\ hpc' = "done"
    /\ outcome' = "returned_none"
    /\ UNCHANGED <<video, hmode, hkwargs, pre, trace, transcoder, runs>>
    /\ UNCHANGED <<gvars, tvars>>

HNext ==
    \/ \E mode \in {"async", "sync"}, kw \in Contexts : Invoke(mode, kw)
    \/ AsyncBaseFirst
    \/ AsyncBaseSecond
    \/ AsyncTest
    \/ AsyncReencode
    \/ AsyncMark
    \/ _execute_logic

\* ==================================================================
\* Google Cloud Storage gateway
\* ==================================================================
\* What pickle.load(token) yields, or the absence of the file. google.oauth2
\* Credentials.valid is "has a token and is not expired", so valid and expired
\* never hold together.
Token(k, v, e, r) == [kind |-> k, valid |-> v, expired |-> e, refresh_token |-> r]
NoCredentials == Token("absent", FALSE, FALSE, FALSE)
CorruptFile == Token("corrupt", FALSE, FALSE, FALSE)
Tokens == { Token("token", v, e, r) : v \in BOOLEAN, e \in BOOLEAN, r \in BOOLEAN }
StoredTokens == { t \in Tokens : ~(t.valid /\ t.expired) }
TokenFiles == {NoCredentials, CorruptFile} \cup StoredTokens

NoAuth == [calls |-> 0, flows |-> 0, pre |-> NoCredentials, post |-> NoCredentials,
           flow |-> FALSE, refreshed |-> FALSE, wrote |-> FALSE,
           outcome |-> "none", returned |-> NoCredentials]
NoCheck == [calls |-> 0, result |-> "none"]
NoUpload == [pc |-> "idle", steps |-> << >>, outcome |-> "none"]

\* line 65 with the test always true
MutNeedsRenewal(c) == TRUE
\* line 65: if not credentials or not credentials.valid
NeedsRenewal(c) == c.kind = "absent" \/ ~c.valid

\* line 67: if credentials and credentials.expired and credentials.refresh_token
CanRefresh(c) == c.kind # "absent" /\ c.expired /\ c.refresh_token

AuthResult(o, c, f, fl, rf, wr) ==
    [outcome |-> o, credentials |-> c, file |-> f, flow |-> fl, refreshed |-> rf, wrote |-> wr]

\* lines 47-87: authenticate_with_oauth, as a function of the token file, of whether
\* the client secrets file exists, and of how the refresh / the login flow go.
authenticate_with_oauth(file, secrets, refreshOk, flowOk, newRefresh) ==
    IF file.kind = "corrupt"
      THEN \* lines 60-62: the load raised, the exception is re-raised
           AuthResult("load_error", NoCredentials, file, FALSE, FALSE, FALSE)
    ELSE IF ~NeedsRenewal(file)
      THEN \* line 87: return credentials
           AuthResult("ok", file, file, FALSE, FALSE, FALSE)
    ELSE IF CanRefresh(file)
      THEN IF refreshOk
             THEN \* lines 68, 77-78: refreshed and saved
                  LET c == Token("token", TRUE, FALSE, file.refresh_token)
                  IN  AuthResult("ok", c, c, FALSE, TRUE, TRUE)
             ELSE \* lines 83-85: GoogleAuthError re-raised
                  AuthResult("auth_error", NoCredentials, file, FALSE, TRUE, FALSE)
    ELSE IF ~secrets
      THEN \* lines 72, 80-82: from_client_secrets_file raised FileNotFoundError
           AuthResult("file_not_found", NoCredentials, file, FALSE, FALSE, FALSE)
    ELSE IF flowOk
      THEN \* lines 73, 77-78: logged in and saved
           LET c == Token("token", TRUE, FALSE, newRefresh)
           IN  AuthResult("ok", c, c, TRUE, FALSE, TRUE)
      ELSE \* line 73 raised
           AuthResult("auth_error", NoCredentials, file, TRUE, FALSE, FALSE)

AuthRecord(r, file) ==
    [calls |-> auth.calls + 1, flows |-> auth.flows + (IF r.flow THEN 1 ELSE 0), pre |-> file, post |-> r.file, flow |-> r.flow,
     refreshed |-> r.refreshed, wrote |-> r.wrote, outcome |-> r.outcome,
     returned |-> r.credentials]

Envs == [ tokenFile : TokenFiles,
          secrets : BOOLEAN,
          bucketExists : BOOLEAN,
          oauthAccess : BOOLEAN,
          adc : {"none", "granted", "denied"},
          localFile : BOOLEAN ]

\* Before the gateway is constructed.
GInit ==
    /\ env \in Envs
    /\ gw = [constructed |-> "no", bucket_name |-> "bucket",
             credentials |-> NoCredentials, storage_client |-> "none"]
    /\ auth = NoAuth
    /\ chk = NoCheck
    /\ up = NoUpload
    /\ gcalls = 0

\* lines 27-45: __init__
Construct ==
    /\ gw.constructed = "no"
    /\ gcalls < MaxGatewayCalls
    /\ gcalls' = gcalls + 1
    /\ \E refreshOk \in BOOLEAN, flowOk \in BOOLEAN, newRefresh \in BOOLEAN :
         LET r == authenticate_with_oauth(env.tokenFile, env.secrets, refreshOk, flowOk, newRefresh)
         IN  /\ auth' = AuthRecord(r, env.tokenFile)
             /\ env' = [env EXCEPT !.tokenFile = r.file]
             /\ gw' = IF r.outcome = "ok"
                        THEN [gw EXCEPT !.constructed = "yes", !.credentials = r.credentials,
                                        !.storage_client = "oauth"]
                        ELSE [gw EXCEPT !.constructed = "failed"]
    /\ UNCHANGED <<chk, up>>
    /\ UNCHANGED <<hvars, tvars>>

\* lines 47-87 called on a constructed gateway (as test_auth does, line 48 of the
\* test): the result goes to the caller, the gateway's fields are not assigned.
CallAuthenticateWithOauth ==
    /\ gw.constructed = "yes"
    /\ gcalls < MaxGatewayCalls
    /\ gcalls' = gcalls + 1
    /\ \E refreshOk \in BOOLEAN, flowOk \in BOOLEAN, newRefresh \in BOOLEAN :
         LET r == authenticate_with_oauth(env.tokenFile, env.secrets, refreshOk, flowOk, newRefresh)
         IN  /\ auth' = AuthRecord(r, env.tokenFile)
             /\ env' = [env EXCEPT !.tokenFile = r.file]
    /\ UNCHANGED <<gw, chk, up>>
    /\ UNCHANGED <<hvars, tvars>>

\* The stored token's expiry time passes.
TokenExpires ==
    /\ env.tokenFile.kind = "token"
    /\ env.tokenFile.valid
    /\ env' = [env EXCEPT !.tokenFile = Token("token", FALSE, TRUE, env.tokenFile.refresh_token)]
    /\ UNCHANGED <<gw, auth, chk, up, gcalls>>
    /\ UNCHANGED <<hvars, tvars>>

\* lines 93-105: the result of check_bucket_access. storage.Client() takes the
\* application default credentials of the process; get_bucket raises NotFound or
\* Forbidden, both turned into False; anything else leaves the method.
BucketAccess(e, transportOk) ==
    IF e.adc = "none" THEN "raised"
    ELSE IF ~transportOk THEN "raised"
    ELSE IF ~e.bucketExists THEN "false"
    ELSE IF e.adc = "denied" THEN "false"
    ELSE "true"

\* lines 89-105: check_bucket_access
check_bucket_access ==
    /\ gw.constructed = "yes"
    /\ gcalls < MaxGatewayCalls
    /\ gcalls' = gcalls + 1
    /\ \E transportOk \in BOOLEAN :
         chk' = [calls |-> chk.calls + 1, result |-> BucketAccess(env, transportOk)]
    /\ UNCHANGED <<env, gw, auth, up>>
    /\ UNCHANGED <<hvars, tvars>>

Step(s) == Append(up.steps, s)

\* lines 140-151: each except clause logs and re-raises what it caught
Reraise(e) == e

Raised(step, e) == [pc |-> "done", steps |-> Step(step), outcome |-> Reraise(e)]

\* line 107, 117: upload_image is called
UploadStart ==
    /\ gw.constructed = "yes"
    /\ up.pc \in {"idle", "done"}
    /\ gcalls < MaxGatewayCalls
    /\ gcalls' = gcalls + 1
    /\ up' = [pc |-> "exists", steps |-> << >>, outcome |-> "none"]
    /\ UNCHANGED <<env, gw, auth, chk>>
    /\ UNCHANGED <<hvars, tvars>>

\* lines 120-122 without the raise
MutUploadCheckBucket ==
    /\ up.pc = "exists"
    /\ up' = [up EXCEPT !.pc = "upload", !.steps = Step("exists")]
    /\ UNCHANGED <<env, gw, auth, chk, gcalls>>
    /\ UNCHANGED <<hvars, tvars>>

\* lines 120-122 (and the handlers 143-151): bucket.exists() with the gateway's own
\* client. It answers False for a missing bucket, and raises when the principal is
\* denied or the request fails.
UploadCheckBucket ==
    /\ up.pc = "exists"
    /\ \/ /\ ~env.oauthAccess
          /\ up' = Raised("exists_failed", "Forbidden")
       \/ up' = Raised("exists_failed", "Exception")
       \/ /\ env.oauthAccess
          /\ ~env.bucketExists
          /\ up' = Raised("bucket_missing", "NotFound")
       \/ /\ env.oauthAccess
          /\ env.bucketExists
          /\ up' = [up EXCEPT !.pc = "upload", !.steps = Step("exists")]
    /\ UNCHANGED <<env, gw, auth, chk, gcalls>>
    /\ UNCHANGED <<hvars, tvars>>

\* lines 127-131 (and the handlers 140-151): blob.upload_from_filename(source_file_path)
UploadFile ==
    /\ up.pc = "upload"
    /\ \/ /\ ~env.localFile
          /\ up' = Raised("upload_failed", "FileNotFoundError")
       \/ /\ env.localFile
          /\ \E e \in {"NotFound", "Forbidden", "Exception"} :
               up' = Raised("upload_failed", e)
       \/ /\ env.localFile
          /\ env.bucketExists
          /\ up' = [up EXCEPT !.pc = "public", !.steps = Step("upload")]
    /\ UNCHANGED <<env, gw, auth, chk, gcalls>>
    /\ UNCHANGED <<hvars, tvars>>

\* lines 134-135 (and the handlers 143-151): blob.make_public()
UploadMakePublic ==
    /\ up.pc = "public"
    /\ \/ \E e \in {"NotFound", "Forbidden", "Exception"} :
               up' = Raised("make_public_failed", e)
       \/ up' = [up EXCEPT !.pc = "return", !.steps = Step("make_public")]
    /\ UNCHANGED <<env, gw, auth, chk, gcalls>>
    /\ UNCHANGED <<hvars, tvars>>

\* lines 138-139: return blob.public_url
UploadReturn ==
    /\ up.pc = "return"
    /\ up' = [up EXCEPT !.pc = "done", !.outcome = "url"]
    /\ UNCHANGED <<env, gw, auth, chk, gcalls>>
    /\ UNCHANGED <<hvars, tvars>>

GNext ==
    \/ Construct
    \/ CallAuthenticateWithOauth
    \/ TokenExpires
    \/ check_bucket_access
    \/ UploadStart
    \/ UploadCheckBucket
    \/ UploadFile
    \/ UploadMakePublic
    \/ UploadReturn

\* ==================================================================
\* telemetry
\* ==================================================================
Threads == 1..NThreads

TInit ==
    /\ telemetry_initialized = FALSE
    /\ lock = 0
    /\ tpc = [t \in Threads |-> "idle"]
    /\ tcalls = [t \in Threads |-> 0]
    /\ tracing = [set_provider_calls |-> 0, processors |-> 0]
    /\ failures = 0
    /\ setups = [t \in Threads |-> 0]

\* lines 41-42: get_tracer calls init_telemetry
get_tracer(t) ==
    /\ tpc[t] \in {"idle", "returned", "raised"}
    /\ tcalls[t] < MaxCalls
    /\ tcalls' = [tcalls EXCEPT ![t] = @ + 1]
    /\ tpc' = [tpc EXCEPT ![t] = "acquire"]
    /\ UNCHANGED <<telemetry_initialized, lock, tracing, failures, setups>>
    /\ UNCHANGED <<hvars, gvars>>

\* line 21 with a lock that excludes nobody
MutAcquire(t) ==
    /\ tpc[t] = "acquire"
    /\ lock' = t
    /\ tpc' = [tpc EXCEPT ![t] = "test"]
    /\ UNCHANGED <<telemetry_initialized, tcalls, tracing, failures, setups>>
    /\ UNCHANGED <<hvars, gvars>>

\* line 21: with telemetry._lock (entry)
Acquire(t) ==
    /\ tpc[t] = "acquire"
    /\ lock = 0
    /\ lock' = t
    /\ tpc' = [tpc EXCEPT ![t] = "test"]
    /\ UNCHANGED <<telemetry_initialized, tcalls, tracing, failures, setups>>
    /\ UNCHANGED <<hvars, gvars>>

\* line 22: if not telemetry.telemetry_initialized
TestInitialized(t) ==
    /\ tpc[t] = "test"
    /\ IF ~telemetry_initialized
         THEN /\ tpc' = [tpc EXCEPT ![t] = "set_provider"]
              /\ setups' = [setups EXCEPT ![t] = @ + 1]
         ELSE /\ tpc' = [tpc EXCEPT ![t] = "set_flag"]
              /\ setups' = setups
    /\ UNCHANGED <<telemetry_initialized, lock, tcalls, tracing, failures>>
    /\ UNCHANGED <<hvars, gvars>>

\* a setup step raising, with the lock kept
MutSetupRaises(t) ==
    /\ tpc[t] \in {"set_provider", "exporter", "add_processor"}
    /\ failures < MaxFailures
    /\ failures' = failures + 1
    /\ tpc' = [tpc EXCEPT ![t] = "raised"]
    /\ UNCHANGED <<telemetry_initialized, lock, tcalls, tracing, setups>>
    /\ UNCHANGED <<hvars, gvars>>

\* lines 24-37 raising: the exception leaves the with block, which releases the
\* lock; line 38 is not reached
SetupRaises(t) ==
    /\ tpc[t] \in {"set_provider", "exporter", "add_processor"}
    /\ failures < MaxFailures
    /\ failures' = failures + 1
    /\ lock' = 0
    /\ tpc' = [tpc EXCEPT ![t] = "raised"]
    /\ UNCHANGED <<telemetry_initialized, tcalls, tracing, setups>>
    /\ UNCHANGED <<hvars, gvars>>

\* lines 24-25: trace.set_tracer_provider(TracerProvider(resource=resource))
SetProvider(t) ==
    /\ tpc[t] = "set_provider"
    /\ tracing' = [tracing EXCEPT !.set_provider_calls = @ + 1]
    /\ tpc' = [tpc EXCEPT ![t] = "exporter"]
    /\ UNCHANGED <<telemetry_initialized, lock, tcalls, failures, setups>>
    /\ UNCHANGED <<hvars, gvars>>

\* lines 28-33: OTLPSpanExporter(endpoint=config..., headers=secrets...)
MakeExporter(t) ==
    /\ tpc[t] = "exporter"
    /\ tpc' = [tpc EXCEPT ![t] = "add_processor"]
    /\ UNCHANGED <<telemetry_initialized, lock, tcalls, tracing, failures, setups>>
    /\ UNCHANGED <<hvars, gvars>>

\* lines 36-37: trace.get_tracer_provider().add_span_processor(span_processor)
AddProcessor(t) ==
    /\ tpc[t] = "add_processor"
    /\ tracing' = [tracing EXCEPT !.processors = @ + 1]
    /\ tpc' = [tpc EXCEPT ![t] = "set_flag"]
    /\ UNCHANGED <<telemetry_initialized, lock, tcalls, failures, setups>>
    /\ UNCHANGED <<hvars, gvars>>

\* line 38 and the end of the with block: the flag is set, the lock released
SetFlagAndRelease(t) ==
    /\ tpc[t] = "set_flag"
    /\ telemetry_initialized' = TRUE
    /\ lock' = 0
    /\ tpc' = [tpc EXCEPT ![t] = "get"]
    /\ UNCHANGED <<tcalls, tracing, failures, setups>>
    /\ UNCHANGED <<hvars, gvars>>

\* line 43: return trace.get_tracer(...)
ReturnTracer(t) ==
    /\ tpc[t] = "get"
    /\ tpc' = [tpc EXCEPT ![t] = "returned"]
    /\ UNCHANGED <<telemetry_initialized, lock, tcalls, tracing, failures, setups>>
    /\ UNCHANGED <<hvars, gvars>>

ThreadStep(t) ==
    \/ get_tracer(t)
    \/ Acquire(t)
    \/ TestInitialized(t)
    \/ SetupRaises(t)
    \/ SetProvider(t)
    \/ MakeExporter(t)
    \/ AddProcessor(t)
    \/ SetFlagAndRelease(t)
    \/ ReturnTracer(t)

TNext == \E t \in Threads : ThreadStep(t)

\* ==================================================================
\* Specifications
\* ==================================================================
\* One fixed world for the gateway, for the specifications that do not use it.
GQuiet ==
    /\ GInit
    /\ env = [tokenFile |-> NoCredentials, secrets |-> FALSE, bucketExists |-> FALSE,
              oauthAccess |-> FALSE, adc |-> "none", localFile |-> FALSE]

\* One fixed video, for the specifications that do not use the handler.
HQuiet ==
    /\ HInit
    /\ video = [_media_url |-> "in.mp4", _needs_reencoding |-> FALSE,
                metadata |-> [is_reencoded |-> FALSE, title |-> "t1"]]

InitHandler == HInit /\ GQuiet /\ TInit

SpecHandler == InitHandler /\ [][HNext]_vars

InitGateway == HQuiet /\ GInit /\ TInit

SpecGateway == InitGateway /\ [][GNext]_vars

InitTelemetry == HQuiet /\ GQuiet /\ TInit

SpecTelemetry == InitTelemetry /\ [][TNext]_vars

\* Threads are scheduled: a thread that can take a step eventually takes one.
FairSpecTelemetry == InitTelemetry /\ [][TNext]_vars /\ \A t \in Threads : WF_vars(ThreadStep(t))

\* ==================================================================
\* Properties of the reencoding handler (SpecHandler)
\* ==================================================================

\* C1: an async execution on a video that does not need reencoding leaves the media
\* reference and the metadata as they were at the call, calls reencode_video zero
\* times, and returns normally.
C1_PassThroughUnchanged ==
    (hmode = "async" /\ ~pre._needs_reencoding) =>
        /\ video._media_url = pre._media_url
        /\ video.metadata = pre.metadata
        /\ transcoder.calls = 0
        /\ hpc = "done" => outcome = "returned"

C1_Witness ==
    /\ hmode = "async"
    /\ hpc = "done"
    /\ ~pre._needs_reencoding
    /\ outcome = "returned"
    /\ Len(trace) = 3

\* C2: after an async execution on a video that needs reencoding, with a transcoder
\* call that succeeded, is_reencoded is true, _needs_reencoding is false and the media
\* reference is the one the transcoder returned; and in every state is_reencoded
\* implies not _needs_reencoding.
C2_ReencodedClearsNeedsReencoding ==
    /\ (hmode = "async" /\ hpc = "done" /\ pre._needs_reencoding /\ transcoder.ok) =>
           /\ video.metadata.is_reencoded
           /\ ~video._needs_reencoding
           /\ video._media_url = transcoder.ret
    /\ video.metadata.is_reencoded => ~video._needs_reencoding

\* C3: when reencode_video raises, the execution ends by raising and the media
\* reference and metadata are those of the call's start; the reference or the
\* metadata differ from the call's start only after a transcoder call that succeeded.
C3_FailureLeavesArtifact ==
    /\ (hmode = "async" /\ transcoder.calls > 0 /\ ~transcoder.ok) =>
           /\ hpc = "done"
           /\ outcome = "raised"
           /\ video._media_url = pre._media_url
           /\ video.metadata = pre.metadata
    /\ (video._media_url # pre._media_url \/ video.metadata # pre.metadata) =>
           /\ transcoder.calls > 0
           /\ transcoder.ok

C3_Witness ==
    /\ hmode = "async"
    /\ hpc = "done"
    /\ pre._needs_reencoding
    /\ transcoder.calls = 1
    /\ ~transcoder.ok
    /\ outcome = "raised"

\* C4: the handler declares async support, and a call of the synchronous entry point
\* on a video that needs reencoding either raises or has processed the video: it
\* never completes normally with nothing done.
C4_SyncCallIsSurfaced ==
    /\ is_supporting_async_mode
    /\ (hmode = "sync" /\ hpc = "done" /\ pre._needs_reencoding) =>
           \/ outcome = "raised"
           \/ transcoder.calls > 0

BaseCalls == SelectSeq(trace, LAMBDA e : e.op = "base")

\* C7: in a finished async execution the base-class logic ran first, exactly once,
\* and with the kwargs the handler was invoked with.
C7_BaseRunsOnceWithContext ==
    (hmode = "async" /\ hpc = "done") =>
        /\ trace[1].op = "base"
        /\ Len(BaseCalls) = 1
        /\ BaseCalls[1].kwargs = hkwargs

\* ==================================================================
\* Properties of the gateway (SpecGateway)
\* ==================================================================
Failed(steps) ==
    \E i \in 1..Len(steps) :
        steps[i] \in {"exists_failed", "bucket_missing", "upload_failed", "make_public_failed"}

Attempted(steps, what) == \E i \in 1..Len(steps) : steps[i] \in what

\* C5: upload_image returns a URL only after the existence check passed, the upload
\* succeeded and make_public succeeded, in this order; with the bucket missing the
\* call ends at the check, with NotFound when the check answered, and no upload or
\* make_public is attempted; a step that fails ends the call with the error raised,
\* never with a URL.
C5_UploadOrderAndErrors ==
    /\ up.outcome = "url" => (up.pc = "done" /\ up.steps = <<"exists", "upload", "make_public">>)
    /\ up.pc = "return" => up.steps = <<"exists", "upload", "make_public">>
    /\ (~env.bucketExists /\ up.steps # << >>) =>
           /\ up.pc = "done"
           /\ Len(up.steps) = 1
           /\ up.steps[1] \in {"bucket_missing", "exists_failed"}
           /\ up.outcome \in {"NotFound", "Forbidden", "Exception"}
    /\ Attempted(up.steps, {"bucket_missing"}) =>
           /\ up.outcome = "NotFound"
           /\ ~Attempted(up.steps, {"upload", "upload_failed", "make_public", "make_public_failed"})
    /\ Failed(up.steps) =>
           /\ up.pc = "done"
           /\ up.outcome \in {"FileNotFoundError", "NotFound", "Forbidden", "Exception"}
    /\ (up.pc = "done" /\ ~Failed(up.steps)) => up.outcome = "url"

C5_Witness ==
    /\ up.pc = "done"
    /\ up.outcome = "url"
    /\ env.bucketExists

\* C6: a check_bucket_access call that returns, returns True exactly when the bucket
\* exists and the principal the gateway authenticated as (OAuth) can access it.
C6_CheckUsesGatewayPrincipal ==
    (chk.calls > 0 /\ chk.result \in {"true", "false"}) =>
        (chk.result = "true" <=> (env.bucketExists /\ env.oauthAccess))

CannotRefresh(c) == ~c.expired \/ ~c.refresh_token

\* C8: authenticate_with_oauth runs the login flow only when there is no stored
\* token, or the stored token is invalid and cannot be refreshed; with a valid
\* stored token it returns that token, and does not refresh, run the flow or write
\* the token file.
C8_FlowOnlyWhenNeeded ==
    auth.calls > 0 =>
        /\ auth.flow =>
               \/ auth.pre.kind = "absent"
               \/ auth.pre.kind = "token" /\ ~auth.pre.valid /\ CannotRefresh(auth.pre)
        /\ (auth.pre.kind = "token" /\ auth.pre.valid) =>
               /\ auth.outcome = "ok"
               /\ auth.returned = auth.pre
               /\ ~auth.flow
               /\ ~auth.refreshed
               /\ ~auth.wrote
               /\ auth.post = auth.pre

\* The second call, after a first one that logged in and saved the token.
C8_Witness ==
    /\ gw.constructed = "yes"
    /\ auth.calls = 2
    /\ auth.flows = 1
    /\ auth.pre.kind = "token"
    /\ auth.pre.valid
    /\ ~auth.flow
    /\ env.tokenFile = auth.pre

\* ==================================================================
\* Properties of telemetry (SpecTelemetry, FairSpecTelemetry)
\* ==================================================================
InSetup(t) == tpc[t] \in {"set_provider", "exporter", "add_processor"}
InWith(t) == tpc[t] \in {"test", "set_provider", "exporter", "add_processor", "set_flag"}

\* C9: as long as no setup step has raised, the provider is set and the processor
\* added at most once over all threads and calls, exactly once when the flag is set;
\* at most one call ever enters the setup branch, and it does so holding the lock
\* with the flag false.
C9_SetupExactlyOnce ==
    failures = 0 =>
        /\ tracing.set_provider_calls <= 1
        /\ tracing.processors <= 1
        /\ \A t \in Threads : setups[t] <= 1
        /\ Cardinality({t \in Threads : setups[t] > 0}) <= 1
        /\ telemetry_initialized => (tracing.set_provider_calls = 1 /\ tracing.processors = 1)
        /\ \A t \in Threads : InSetup(t) => (lock = t /\ ~telemetry_initialized)

C9_Witness ==
    /\ failures = 0
    /\ \A t \in Threads : tpc[t] = "returned" /\ tcalls[t] = MaxCalls
    /\ tracing = [set_provider_calls |-> 1, processors |-> 1]
    /\ telemetry_initialized

\* C10: the flag is true only when the provider has been set and the processor
\* added; a setup step that raises leaves the flag false and the lock free; the lock
\* is held only inside the with block; a call that finds the flag false enters the
\* setup; a held lock is eventually released, and a thread waiting for the lock
\* eventually gets past it.
C10_FlagImpliesSetupAndLockFreed ==
    /\ [](telemetry_initialized => (tracing.set_provider_calls >= 1 /\ tracing.processors >= 1))
    /\ [](\A t \in Threads : (lock = t => InWith(t)) /\ (InWith(t) => lock = t))
    /\ [][failures' > failures => (~telemetry_initialized' /\ lock' = 0)]_vars
    /\ [][\A t \in Threads :
            (tpc[t] = "test" /\ tpc'[t] # "test" /\ ~telemetry_initialized) => tpc'[t] = "set_provider"]_vars
    /\ (lock # 0) ~> (lock = 0)
    /\ \A t \in Threads : (tpc[t] = "acquire") ~> (tpc[t] # "acquire")

\* A call set everything up after an earlier call's setup had raised.
C10_Witness ==
    /\ failures >= 1
    /\ telemetry_initialized
    /\ \E t \in Threads : tpc[t] = "raised"

====
